---- MODULE Spec2Model ----
(***************************************************************************)
(* Model of the SP500 portfolio MCP server                                 *)
(* (src/SP500MCPServer/sp500_mcp_server_v2.py): the CSV loader with its    *)
(* process-wide cache and the four tool handlers.                          *)
(*                                                                         *)
(* Representation.                                                         *)
(*  - A Python str is a sequence of one-character strings, so that         *)
(*    str.lower(), str.upper() and the `in` substring test are computed.   *)
(*  - A value of a numeric column is a record [k, s, n]: k = "float" with  *)
(*    the number in n, or k = "str" with the text in s (a cell the loader  *)
(*    left unconverted).  Floats are the whole numbers the cells spell.    *)
(*  - A non-integral result (a ratio, a product by 0.25) is an exact       *)
(*    fraction [num, den].                                                 *)
(*  - A handler either returns a dict (a record with the dict's keys) or   *)
(*    raises; resp holds the outcome until the boundary delivers it.       *)
(*                                                                         *)
(* Specifications.                                                         *)
(*  - Spec: the calls one after another, the file removed or restored      *)
(*    between them.                                                        *)
(*  - ParallelSpec: requests whose steps interleave, statement by          *)
(*    statement of load_portfolio_data; the file stays as it is.           *)
(*  - RepeatSpec: Spec with the last query kept, to compare a query with   *)
(*    its repetition.                                                      *)
(*  - TopSpec: files long enough for the top-5 and top-10 lists to cut.    *)
(***************************************************************************)
EXTENDS Integers, Sequences, FiniteSets, TLC

VARIABLES
    source,     \* rows of the CSV file at PORTFOLIO_CSV_PATH (csv.DictReader dicts)
    exists,     \* PORTFOLIO_CSV_PATH.exists()
    cache,      \* _portfolio_cache
    pc,         \* "boot" (main() not yet run), "idle", "reply" (a handler has finished)
    call,       \* the tool call being answered: its name and arguments
    resp,       \* what the handler returned or raised
    didRead,    \* whether the last load_portfolio_data opened the source
    threads,    \* the requests in flight when handlers run in parallel: each one's
                \* position in its handler and its locals
    last        \* history: the last query_sp500_portfolio call delivered and its
                \* outcome, where calls are compared with their repetition

vars == <<source, exists, cache, pc, call, resp, didRead, threads, last>>

\* ----------------------------------------------------------------- bounds

\* Most data rows in the CSV file.
MaxRows == 2

\* Most requests handled at the same time.
MaxRequests == 2

\* Most data rows in the files the top-exposed lists are taken from.
MaxTopRows == 11

\* ---------------------------------------------------------------- strings

Min(a, b) == IF a < b THEN a ELSE b
Max(a, b) == IF a > b THEN a ELSE b

\* The cased letters of the alphabet used, as <<upper, lower>>.
CasePairs ==
    { <<"A","a">>, <<"B","b">>, <<"C","c">>, <<"D","d">>, <<"E","e">>,
      <<"F","f">>, <<"G","g">>, <<"H","h">>, <<"I","i">>, <<"L","l">>,
      <<"M","m">>, <<"N","n">>, <<"O","o">>, <<"R","r">>, <<"S","s">>,
      <<"T","t">>, <<"U","u">>, <<"W","w">>, <<"Y","y">> }

LowerChar(c) ==
    IF \E p \in CasePairs : p[1] = c
    THEN (CHOOSE p \in CasePairs : p[1] = c)[2]
    ELSE c

UpperChar(c) ==
    IF \E p \in CasePairs : p[2] = c
    THEN (CHOOSE p \in CasePairs : p[2] = c)[1]
    ELSE c

\* str.lower()
Lower(s) == [i \in 1..Len(s) |-> LowerChar(s[i])]

\* str.upper()
Upper(s) == [i \in 1..Len(s) |-> UpperChar(s[i])]

\* `needle in hay` for two str
Contains(hay, needle) ==
    \E i \in 0..(Len(hay) - Len(needle)) :
        \A j \in 1..Len(needle) : hay[i + j] = needle[j]

\* some literals
S_TRUE == <<"T","R","U","E">>
S_yes == <<"y","e","s">>
S_no == <<"n","o">>
S_high == <<"h","i","g","h">>
S_medium == <<"m","e","d","i","u","m">>
S_low == <<"l","o","w">>
S_none == <<"n","o","n","e">>

\* ----------------------------------------------------------------- values

PyFloat(x) == [k |-> "float", s |-> <<>>, n |-> x]
PyStr(t) == [k |-> "str", s |-> t, n |-> 0]

Digits == {"0","1","2","3","4","5","6","7","8","9"}

DigitVal(c) ==
    CASE c = "0" -> 0 [] c = "1" -> 1 [] c = "2" -> 2 [] c = "3" -> 3
      [] c = "4" -> 4 [] c = "5" -> 5 [] c = "6" -> 6 [] c = "7" -> 7
      [] c = "8" -> 8 [] c = "9" -> 9

\* The digits of a cell after an optional minus sign.
Unsigned(cell) == IF Len(cell) > 0 /\ cell[1] = "-" THEN Tail(cell) ELSE cell

\* float(cell) succeeds: on the cells of the model, exactly on the digit
\* strings, signed or not.
FloatParses(cell) ==
    LET d == Unsigned(cell)
    IN  Len(d) > 0 /\ \A i \in 1..Len(d) : d[i] \in Digits

\* float(cell) of a digit string, signed or not
FloatOf(cell) ==
    LET d == Unsigned(cell)
        value[n \in 0..Len(d)] ==
            IF n = 0 THEN 0 ELSE 10 * value[n - 1] + DigitVal(d[n])
    IN  IF d = cell THEN value[Len(d)] ELSE 0 - value[Len(d)]

\* ----------------------------------------------------------------- loader

\* The header of the CSV file: the keys of every DictReader row.
Columns ==
    { "ticker", "company_name", "sector", "industry", "exposure_level",
      "imports_into_us", "investment_usd", "revenue_usd", "cogs_usd",
      "gross_margin_pct", "fiscal_year", "affected_cogs_pct", "confidence" }

\* numeric_fields of load_portfolio_data
numeric_fields ==
    { "investment_usd", "revenue_usd", "cogs_usd", "gross_margin_pct",
      "fiscal_year", "affected_cogs_pct", "confidence" }

\* Lines 62-66: `if field in row and row[field]:` skips an empty cell, which
\* stays the str ''; a non-empty cell becomes float(cell), or 0.0 on ValueError.
ConvertNumeric(cell) ==
    IF cell # <<>>
    THEN IF FloatParses(cell) THEN PyFloat(FloatOf(cell)) ELSE PyFloat(0)
    ELSE PyStr(cell)

\* Line 70: row['imports_into_us'].upper() == 'TRUE'
ConvertBool(cell) == Upper(cell) = S_TRUE

\* Lines 55-72: one row of the reader, converted in place.
ConvertRow(row) ==
    [ f \in Columns |->
        IF f \in numeric_fields THEN ConvertNumeric(row[f])
        ELSE IF f = "imports_into_us" THEN ConvertBool(row[f])
        ELSE row[f] ]

\* Lines 52-72: portfolio_data, the converted rows in file order.
ReadSource(rows) == [i \in 1..Len(rows) |-> ConvertRow(rows[i])]

\* A bug the loader could have: the cache is never consulted.
LoadAlwaysReads(c, ex, rows) ==
    IF ~ex THEN [data |-> <<>>, cache |-> c, read |-> FALSE]
    ELSE [data |-> ReadSource(rows), cache |-> ReadSource(rows), read |-> TRUE]

\* A bug the loader could have: the file is read without the test that it
\* exists (line 48).
LoadIgnoresExists(c, ex, rows) ==
    IF c # <<>> THEN [data |-> c, cache |-> c, read |-> FALSE]
    ELSE [data |-> ReadSource(rows), cache |-> ReadSource(rows), read |-> TRUE]

\* load_portfolio_data (lines 41-76) as a function of the cache, the file's
\* existence and its rows: the list returned, the cache afterwards, and whether
\* the file was opened.  A non-empty cache is returned as it is (line 45); an
\* absent file gives [] and leaves the cache (line 48).
LoadPortfolioData(c, ex, rows) ==
    IF c # <<>> THEN [data |-> c, cache |-> c, read |-> FALSE]
    ELSE IF ~ex THEN [data |-> <<>>, cache |-> c, read |-> FALSE]
    ELSE [data |-> ReadSource(rows), cache |-> ReadSource(rows), read |-> TRUE]

\* The load a handler starts with, in the current state.
Loaded == LoadPortfolioData(cache, exists, source)

\* ------------------------------------------------------------ python bits

\* float(v) raises ValueError: v is a str that float() rejects.  The only str a
\* loaded numeric field can hold is the empty one.
FloatRaises(v) == v.k = "str"

\* float(v) of a float
AsFloat(v) == v.n

\* seq[:limit]
Slice(seq, limit) ==
    IF limit >= 0 THEN SubSeq(seq, 1, Min(limit, Len(seq)))
    ELSE SubSeq(seq, 1, Max(Len(seq) + limit, 0))

\* The order a stable sort puts n elements in, as the list of their indices.
\* stays[y, x], for y earlier than x in the input, says that y stays before x:
\* its key is not greater (ascending), or not less (reverse=True).  Each
\* element goes after the elements already placed that stay before it, which
\* form a prefix of the sorted list.
SortOrder(n, stays) ==
    LET placed[k \in 0..n] ==
            IF k = 0 THEN <<>>
            ELSE LET p == placed[k - 1]
                     m == Cardinality({i \in 1..Len(p) : stays[p[i], k]})
                 IN  SubSeq(p, 1, m) \o <<k>> \o SubSeq(p, m + 1, Len(p))
    IN  placed[n]

\* sorted(seq, key=..., reverse=...): a stable sort in both directions.
SortedBy(seq, stays) ==
    LET order == SortOrder(Len(seq), stays)
    IN  [i \in 1..Len(seq) |-> seq[order[i]]]

\* A bug the sort could have: records with equal keys come out in reverse.
SortedDescTiesReversed(seq, field) ==
    SortedBy(seq, [y \in 1..Len(seq), x \in 1..Len(seq) |->
                      AsFloat(seq[y][field]) > AsFloat(seq[x][field])])

\* sorted(seq, key=lambda x: float(x[field]), reverse=True)
SortedDescByField(seq, field) ==
    SortedBy(seq, [y \in 1..Len(seq), x \in 1..Len(seq) |->
                      AsFloat(seq[y][field]) >= AsFloat(seq[x][field])])

\* sum(...) of a list of numbers
SumOf(terms) ==
    LET partial[n \in 0..Len(terms)] ==
            IF n = 0 THEN 0 ELSE partial[n - 1] + terms[n]
    IN  partial[Len(terms)]

\* [c[field] for c in seq] as floats
FloatsOf(seq, field) == [i \in 1..Len(seq) |-> AsFloat(seq[i][field])]

\* [float(c['cogs_usd']) * float(c['affected_cogs_pct']) for c in seq]
AffectedCogsOf(seq) ==
    [i \in 1..Len(seq) |-> AsFloat(seq[i].cogs_usd) * AsFloat(seq[i].affected_cogs_pct)]

\* -------------------------------------------------------------- envelope

\* str(uuid.uuid4())[:8]: eight hexadecimal characters, random.
Uuid8 == { <<"7","f","3","a","9","c","1","e">> }

\* round(elapsed * 1000, 2): a reading of the clock.
ElapsedMs == { 0 }

S_rq == <<"r","q","_">>

Raised(exc) == [outcome |-> "raised", exc |-> exc]
Returned(body) == [outcome |-> "returned", body |-> body]
NoResp == [outcome |-> "none"]
NoCall == [op |-> "none"]

\* No query has been delivered yet.
NoLast == [call |-> NoCall, resp |-> NoResp, loaded |-> FALSE, between |-> FALSE]

\* ---------------------------------------------------- query_sp500_portfolio

\* A bug the bounds could have: the lower bounds are exclusive.
AtLeastExclusive(v, bound) == AsFloat(v) > bound

\* Lines 142 and 148: float(c.get(field, 0)) >= bound
AtLeast(v, bound) == AsFloat(v) >= bound

\* Line 145: float(c.get('revenue_usd', 0)) <= max_revenue
AtMost(v, bound) == AsFloat(v) <= bound

\* Lines 126-154: the filters of the handler, in the order it applies them.
\* The two branches of imports_filter count as two.
Filters ==
    << "sector", "industry", "exposure_level", "imports_yes", "imports_no",
       "min_revenue", "max_revenue", "min_affected_cogs_pct", "company_name", "ticker" >>

\* The `if` that guards a filter: the criterion is supplied.
FilterActive(a, filter) ==
    CASE filter = "sector" -> a.sector # <<>>
      [] filter = "industry" -> a.industry # <<>>
      [] filter = "exposure_level" -> a.exposure_level # <<>>
      [] filter = "imports_yes" -> a.imports_filter # <<>> /\ Lower(a.imports_filter) = S_yes
      [] filter = "imports_no" -> /\ a.imports_filter # <<>>
                                  /\ Lower(a.imports_filter) # S_yes
                                  /\ Lower(a.imports_filter) = S_no
      [] filter = "min_revenue" -> a.min_revenue > 0
      [] filter = "max_revenue" -> a.max_revenue > 0
      [] filter = "min_affected_cogs_pct" -> a.min_affected_cogs_pct > 0
      [] filter = "company_name" -> a.company_name # <<>>
      [] filter = "ticker" -> a.ticker # <<>>

\* Evaluating the condition of a filter on the company c raises ValueError.
FilterRaises(c, a, filter) ==
    CASE filter = "min_revenue" -> FloatRaises(c.revenue_usd)
      [] filter = "max_revenue" -> FloatRaises(c.revenue_usd)
      [] filter = "min_affected_cogs_pct" -> FloatRaises(c.affected_cogs_pct)
      [] OTHER -> FALSE

\* The condition of a filter holds of the company c.
FilterKeeps(c, a, filter) ==
    CASE filter = "sector" -> Lower(c.sector) = Lower(a.sector)
      [] filter = "industry" -> Lower(c.industry) = Lower(a.industry)
      [] filter = "exposure_level" -> Lower(c.exposure_level) = Lower(a.exposure_level)
      [] filter = "imports_yes" -> c.imports_into_us
      [] filter = "imports_no" -> ~c.imports_into_us
      [] filter = "min_revenue" -> AtLeast(c.revenue_usd, a.min_revenue)
      [] filter = "max_revenue" -> AtMost(c.revenue_usd, a.max_revenue)
      [] filter = "min_affected_cogs_pct" ->
            AtLeast(c.affected_cogs_pct, a.min_affected_cogs_pct)
      [] filter = "company_name" -> Contains(Lower(c.company_name), Lower(a.company_name))
      [] filter = "ticker" -> Upper(c.ticker) = Upper(a.ticker)

\* One filter applied to the running result of a handler that may already have
\* raised: `if <supplied>: results = [c for c in results if <condition>]`.
FilterStep(st, a, filter) ==
    IF ~st.ok \/ ~FilterActive(a, filter) THEN st
    ELSE IF \E i \in 1..Len(st.rs) : FilterRaises(st.rs[i], a, filter)
    THEN [ok |-> FALSE, rs |-> <<>>]
    ELSE [ok |-> TRUE, rs |-> SelectSeq(st.rs, LAMBDA c : FilterKeeps(c, a, filter))]

\* Lines 123-154: results after all the filters, or the fact that one raised.
ApplyFilters(data, a) ==
    LET after[k \in 0..Len(Filters)] ==
            IF k = 0 THEN [ok |-> TRUE, rs |-> data]
            ELSE FilterStep(after[k - 1], a, Filters[k])
    IN  after[Len(Filters)]

\* Line 159: the fields query_sp500_portfolio sorts by.
SortFields == { "revenue_usd", "affected_cogs_pct", "confidence", "investment_usd" }

\* Line 160: sorted(results, key=lambda x: float(x.get(sort_by, 0)), reverse=sort_desc)
SortResults(results, field, desc) ==
    SortedBy(results, [y \in 1..Len(results), x \in 1..Len(results) |->
                          IF desc THEN AsFloat(results[y][field]) >= AsFloat(results[x][field])
                          ELSE AsFloat(results[y][field]) <= AsFloat(results[x][field])])

\* query_sp500_portfolio (lines 121-185) on the list load_portfolio_data returned.
\* sort_by is compared as it is with the field names, so it is a plain string.
QueryBody(data, a, uuid, ms) ==
    LET f == ApplyFilters(data, a)
        field == a.sort_by
        sorts == a.sort_by # "" /\ a.sort_by \in SortFields
    IN  IF ~f.ok THEN Raised("ValueError")
        ELSE IF sorts /\ \E i \in 1..Len(f.rs) : FloatRaises(f.rs[i][field])
        THEN Raised("ValueError")
        ELSE LET ordered == IF sorts THEN SortResults(f.rs, field, a.sort_desc) ELSE f.rs
                 results == Slice(ordered, a.limit)
             IN  Returned([ request_id |-> S_rq \o uuid,
                            status |-> "success",
                            total_matches |-> Len(f.rs),
                            returned_count |-> Len(results),
                            companies |-> results,
                            processing_time_ms |-> ms ])

\* ------------------------------------------------------ get_company_details

\* An exact fraction num/den (den > 0; num of either sign).
Frac(num, den) == [num |-> num, den |-> den]

\* Lines 229-233 and 237-240: the first index at which hit is true; 0 when
\* there is none.
FirstIndex(hit) ==
    IF \E i \in DOMAIN hit : hit[i]
    THEN CHOOSE i \in DOMAIN hit : hit[i] /\ \A j \in 1..(i - 1) : ~hit[j]
    ELSE 0

\* Lines 226-240: the index of the company found, 0 for None.
FindCompany(data, ticker, company_name) ==
    LET byTicker == IF ticker # <<>>
                    THEN FirstIndex([i \in 1..Len(data) |->
                                        Upper(data[i].ticker) = Upper(ticker)])
                    ELSE 0
    IN  IF byTicker # 0 THEN byTicker
        ELSE IF company_name # <<>>
        THEN FirstIndex([i \in 1..Len(data) |->
                            Contains(Lower(data[i].company_name), Lower(company_name))])
        ELSE 0

\* Lines 251-268: calculated_metrics of a company whose numbers are floats.
\* 0.25 is 1/4.
CalculatedMetrics(company) ==
    LET revenue == AsFloat(company.revenue_usd)
        cogs == AsFloat(company.cogs_usd)
        affected_pct == AsFloat(company.affected_cogs_pct)
        affected_cogs_usd == cogs * affected_pct
    IN  [ affected_cogs_usd |-> affected_cogs_usd,
          potential_tariff_impact_usd |-> Frac(affected_cogs_usd, 4),
          revenue_to_cogs_ratio |-> IF cogs > 0 THEN Frac(revenue, cogs) ELSE Frac(0, 1),
          exposure_risk_score |-> affected_pct * (IF company.imports_into_us THEN 1 ELSE 0) ]

\* The part of get_company_details before load_portfolio_data (lines 217-223).
DetailsInvalid(ticker, company_name) == ticker = <<>> /\ company_name = <<>>

\* get_company_details (lines 225-281) on the list load_portfolio_data returned.
DetailsBody(data, ticker, company_name, uuid, ms) ==
    LET i == FindCompany(data, ticker, company_name)
    IN  IF i = 0
        THEN Returned([ request_id |-> S_rq \o uuid,
                        status |-> "not_found",
                        message |-> <<"No company found matching", ticker, company_name>>,
                        processing_time_ms |-> ms ])
        ELSE IF \E f \in {"revenue_usd", "cogs_usd", "affected_cogs_pct"} :
                    FloatRaises(data[i][f])
        THEN Raised("ValueError")
        ELSE Returned([ request_id |-> S_rq \o uuid,
                        status |-> "success",
                        company |-> data[i],
                        calculated_metrics |-> CalculatedMetrics(data[i]),
                        processing_time_ms |-> ms ])

\* A bug the validation error could have: the explanation is left out.
DetailsErrorBare(uuid, ms) ==
    Returned([ request_id |-> S_rq \o uuid,
               status |-> "error",
               processing_time_ms |-> ms ])

\* Lines 218-223: the validation error.
DetailsError(uuid, ms) ==
    Returned([ request_id |-> S_rq \o uuid,
               status |-> "error",
               error |-> <<"Must provide either ticker or company_name">>,
               processing_time_ms |-> ms ])

\* ------------------------------------------------------ get_sector_analysis

\* The numeric fields both aggregations pass to float() for every company.
AggregatedFields == { "investment_usd", "revenue_usd", "cogs_usd", "affected_cogs_pct" }

\* Some float() of an aggregation over data raises ValueError.
AggregationRaises(data) ==
    \E i \in 1..Len(data) : \E f \in AggregatedFields : FloatRaises(data[i][f])

\* The keys of a dict filled in the order of data: the distinct sector values,
\* each at its first occurrence.
SectorKeys(data) ==
    LET firsts == SelectSeq([i \in 1..Len(data) |-> i],
                            LAMBDA i : \A j \in 1..(i - 1) : data[j].sector # data[i].sector)
    IN  [k \in 1..Len(firsts) |-> data[firsts[k]].sector]

\* Lines 353-371: the summary of the sector named sec_name.
SectorSummary(data, sec_name) ==
    LET companies == SelectSeq(data, LAMBDA c : c.sector = sec_name)
        total_cogs == SumOf(FloatsOf(companies, "cogs_usd"))
        total_affected == SumOf(AffectedCogsOf(companies))
    IN  [ sector |-> sec_name,
          company_count |-> Len(companies),
          total_investment_usd |-> SumOf(FloatsOf(companies, "investment_usd")),
          total_revenue_usd |-> SumOf(FloatsOf(companies, "revenue_usd")),
          total_cogs_usd |-> total_cogs,
          total_affected_cogs_usd |-> total_affected,
          average_exposure_pct |-> IF total_cogs > 0 THEN Frac(total_affected, total_cogs)
                                   ELSE Frac(0, 1),
          importers_count |-> Len(SelectSeq(companies, LAMBDA c : c.imports_into_us)),
          top_exposed_companies |-> Slice(SortedDescByField(companies, "affected_cogs_pct"), 5) ]

\* Lines 325-374: the sector summaries, sorted by total investment, descending.
SectorSummaries(data) ==
    LET keys == SectorKeys(data)
        summaries == [k \in 1..Len(keys) |-> SectorSummary(data, keys[k])]
    IN  SortedBy(summaries, [y \in 1..Len(keys), x \in 1..Len(keys) |->
                    summaries[y].total_investment_usd >= summaries[x].total_investment_usd])

\* Line 316: the companies of a sector.
InSector(data, sector) == SelectSeq(data, LAMBDA c : Lower(c.sector) = Lower(sector))

\* get_sector_analysis (lines 311-395) on the list load_portfolio_data returned.
SectorBody(loaded, sector, uuid, ms) ==
    LET data == IF sector # <<>> THEN InSector(loaded, sector) ELSE loaded
    IN  IF sector # <<>> /\ data = <<>>
        THEN Returned([ request_id |-> S_rq \o uuid,
                        status |-> "not_found",
                        message |-> <<"No companies found in sector", sector>>,
                        processing_time_ms |-> ms ])
        ELSE IF AggregationRaises(data) THEN Raised("ValueError")
        ELSE LET sector_summaries == SectorSummaries(data)
             IN  Returned([ request_id |-> S_rq \o uuid,
                            status |-> "success",
                            sector_count |-> Len(sector_summaries),
                            sectors |-> sector_summaries,
                            processing_time_ms |-> ms ])

\* ----------------------------------------------------- get_exposure_summary

\* Lines 442-447: the companies of an exposure level.
LevelCount(data, level) ==
    Len(SelectSeq(data, LAMBDA c : Lower(c.exposure_level) = level))

\* Lines 450-468: the sectors with their exposure, highest first.
SectorExposureRanking(data) ==
    LET keys == SectorKeys(data)
        entry(sec) ==
            LET companies == SelectSeq(data, LAMBDA c : c.sector = sec)
                total_cogs == SumOf(FloatsOf(companies, "cogs_usd"))
                affected == SumOf(AffectedCogsOf(companies))
            IN  [ sector |-> sec,
                  exposure_pct |-> IF total_cogs > 0 THEN Frac(affected, total_cogs)
                                   ELSE Frac(0, 1) ]
        entries == [k \in 1..Len(keys) |-> entry(keys[k])]
    IN  SortedBy(entries, [y \in 1..Len(keys), x \in 1..Len(keys) |->
                    entries[y].exposure_pct.num * entries[x].exposure_pct.den
                        >= entries[x].exposure_pct.num * entries[y].exposure_pct.den])

\* Lines 488-498: what the summary shows of a top exposed company.
TopExposedEntry(c) ==
    [ ticker |-> c.ticker, company_name |-> c.company_name, sector |-> c.sector,
      exposure_level |-> c.exposure_level, affected_cogs_pct |-> c.affected_cogs_pct,
      imports_into_us |-> c.imports_into_us ]

\* get_exposure_summary (lines 424-512) on the list load_portfolio_data returned.
SummaryBody(data, uuid, ms) ==
    IF AggregationRaises(data) THEN Raised("ValueError")
    ELSE
      LET total_cogs == SumOf(FloatsOf(data, "cogs_usd"))
          total_affected_cogs == SumOf(AffectedCogsOf(data))
          top_exposed == Slice(SortedDescByField(data, "affected_cogs_pct"), 10)
      IN  Returned([
            request_id |-> S_rq \o uuid,
            status |-> "success",
            portfolio_overview |->
              [ total_companies |-> Len(data),
                total_investment_usd |-> SumOf(FloatsOf(data, "investment_usd")),
                total_revenue_usd |-> SumOf(FloatsOf(data, "revenue_usd")),
                total_cogs_usd |-> total_cogs,
                total_affected_cogs_usd |-> total_affected_cogs,
                overall_exposure_pct |-> IF total_cogs > 0
                                         THEN Frac(total_affected_cogs, total_cogs)
                                         ELSE Frac(0, 1),
                companies_importing_from_china |->
                    Len(SelectSeq(data, LAMBDA c : c.imports_into_us)) ],
            exposure_level_breakdown |->
              [ high |-> LevelCount(data, S_high), medium |-> LevelCount(data, S_medium),
                low |-> LevelCount(data, S_low), none |-> LevelCount(data, S_none) ],
            top_exposed_companies |->
              [i \in 1..Len(top_exposed) |-> TopExposedEntry(top_exposed[i])],
            sector_exposure_ranking |-> SectorExposureRanking(data),
            processing_time_ms |-> ms ])

\* ------------------------------------------------------------------ inputs

\* A row of the file as csv.DictReader yields it, from its thirteen cells in the
\* order written here: every cell a str.
Row(cells) ==
    [ ticker |-> cells[1], company_name |-> cells[2], sector |-> cells[3],
      industry |-> cells[4], exposure_level |-> cells[5],
      imports_into_us |-> cells[6], investment_usd |-> cells[7],
      revenue_usd |-> cells[8], cogs_usd |-> cells[9],
      gross_margin_pct |-> cells[10], fiscal_year |-> cells[11],
      affected_cogs_pct |-> cells[12], confidence |-> cells[13] ]

\* The rows a file is made of: rows whose sectors and tickers differ in case
\* only and whose names share substrings, with ties in the sort fields, with an
\* empty or an unparseable numeric cell, with COGS of zero and below zero, and
\* with several spellings of the boolean.
RowPool ==
    { Row(<< <<"A">>, <<"a","b">>, <<"I","T">>, <<"S","w">>, <<"H","i","g","h">>,
             <<"T","R","U","E">>, <<"2">>, <<"2">>, <<"2">>, <<"1">>, <<"1">>, <<"1">>, <<"2">> >>),
      Row(<< <<"B">>, <<"B","a">>, <<"i","t">>, <<"s","w">>, <<"l","o","w">>,
             <<"t","r","u","e">>, <<"1","0">>, <<"1">>, <<"0">>, <<"1">>, <<>>, <<"2">>, <<"1">> >>),
      Row(<< <<"a">>, <<"b">>, <<"E","n">>, <<"O","i","l">>, <<"H","I","G","H">>,
             <<>>, <<"2">>, <<>>, <<"0">>, <<"1">>, <<"1">>, <<"0">>, <<"1">> >>),
      Row(<< <<"C">>, <<"a","b">>, <<"E","n">>, <<"S","w">>, <<"n","o","n","e">>,
             <<"y","e","s">>, <<"x">>, <<"2">>, <<"-","3">>, <<>>, <<"1">>, <<"1">>, <<"x">> >>) }

\* The files: at most MaxRows rows of the pool, in any order, repeats allowed.
Sources == UNION { [1..n -> RowPool] : n \in 0..MaxRows }

\* The arguments of query_sp500_portfolio: every combination of the filters
\* with the default limit and order ...
FilterArgs ==
    [ sector : { <<>>, <<"i","t">> },
      industry : { <<>>, <<"S","W">> },
      exposure_level : { <<>>, <<"h","i","g","h">> },
      imports_filter : { <<>>, <<"Y","E","S">>, <<"n","o">> },
      min_revenue : { 0, 2 },
      max_revenue : { 0, 2 },
      min_affected_cogs_pct : { 0, 2 },
      company_name : { <<>>, <<"A","B">> },
      ticker : { <<>>, <<"b">> },
      limit : { 20 },
      sort_by : { "" },
      sort_desc : { TRUE } ]

\* ... the values that are neither unset nor a criterion: a negative bound, an
\* imports_filter other than yes and no ...
OddArgs ==
    [ sector : { <<>>, <<"i","t">> },
      industry : { <<>> },
      exposure_level : { <<>> },
      imports_filter : { <<>>, <<"a","l","l">> },
      min_revenue : { -1, 0 },
      max_revenue : { -1, 0 },
      min_affected_cogs_pct : { -1, 0 },
      company_name : { <<>> },
      ticker : { <<>> },
      limit : { 20 },
      sort_by : { "" },
      sort_desc : { TRUE } ]

\* ... and every limit and order, with the sector filter alone.
SortArgs ==
    [ sector : { <<>>, <<"i","t">> },
      industry : { <<>> },
      exposure_level : { <<>> },
      imports_filter : { <<>> },
      min_revenue : { 0 },
      max_revenue : { 0 },
      min_affected_cogs_pct : { 0 },
      company_name : { <<>> },
      ticker : { <<>> },
      limit : { -1, 0, 1, 2, 20 },
      sort_by : { "", "revenue_usd", "affected_cogs_pct", "confidence",
                  "investment_usd", "ticker" },
      sort_desc : BOOLEAN ]

QueryArgs == FilterArgs \cup OddArgs \cup SortArgs

\* The arguments of get_company_details.
TickerArgs == { <<>>, <<"a">>, <<"B">>, <<"Z">> }
NameArgs == { <<>>, <<"A","B">>, <<"b">>, <<"z">> }

\* The arguments of get_sector_analysis.
SectorArgs == { <<>>, <<"i","t">>, <<"E","n">>, <<"z">> }

\* ----------------------------------------------------------- state machine

Init ==
    /\ source \in Sources
    /\ exists \in BOOLEAN
    /\ cache = <<>>
    /\ pc = "boot"
    /\ call = NoCall
    /\ resp = NoResp
    /\ didRead = FALSE
    /\ threads = <<>>
    /\ last = NoLast

\* main() (lines 533-546): the data is pre-loaded, then the server runs.
Main ==
    /\ pc = "boot"
    /\ cache' = Loaded.cache
    /\ didRead' = Loaded.read
    /\ pc' = "idle"
    /\ UNCHANGED <<source, exists, call, resp, threads, last>>

\* A call of query_sp500_portfolio (lines 96-185).
QuerySp500Portfolio ==
    /\ pc = "idle"
    /\ \E a \in QueryArgs, uuid \in Uuid8, ms \in ElapsedMs :
          /\ call' = [op |-> "query_sp500_portfolio", args |-> a]
          /\ resp' = QueryBody(Loaded.data, a, uuid, ms)
    /\ cache' = Loaded.cache
    /\ didRead' = Loaded.read
    /\ pc' = "reply"
    /\ UNCHANGED <<source, exists, threads, last>>

\* A call of get_company_details (lines 201-281).
GetCompanyDetails ==
    /\ pc = "idle"
    /\ \E ticker \in TickerArgs, company_name \in NameArgs, uuid \in Uuid8, ms \in ElapsedMs :
          /\ call' = [op |-> "get_company_details", ticker |-> ticker,
                      company_name |-> company_name]
          /\ IF DetailsInvalid(ticker, company_name)
             THEN /\ resp' = DetailsError(uuid, ms)
                  /\ cache' = cache
                  /\ didRead' = FALSE
             ELSE /\ resp' = DetailsBody(Loaded.data, ticker, company_name, uuid, ms)
                  /\ cache' = Loaded.cache
                  /\ didRead' = Loaded.read
    /\ pc' = "reply"
    /\ UNCHANGED <<source, exists, threads, last>>

\* A call of get_sector_analysis (lines 298-395).
GetSectorAnalysis ==
    /\ pc = "idle"
    /\ \E sector \in SectorArgs, uuid \in Uuid8, ms \in ElapsedMs :
          /\ call' = [op |-> "get_sector_analysis", sector |-> sector]
          /\ resp' = SectorBody(Loaded.data, sector, uuid, ms)
    /\ cache' = Loaded.cache
    /\ didRead' = Loaded.read
    /\ pc' = "reply"
    /\ UNCHANGED <<source, exists, threads, last>>

\* A call of get_exposure_summary (lines 412-512).
GetExposureSummary ==
    /\ pc = "idle"
    /\ \E uuid \in Uuid8, ms \in ElapsedMs :
          /\ call' = [op |-> "get_exposure_summary"]
          /\ resp' = SummaryBody(Loaded.data, uuid, ms)
    /\ cache' = Loaded.cache
    /\ didRead' = Loaded.read
    /\ pc' = "reply"
    /\ UNCHANGED <<source, exists, threads, last>>

\* The request boundary hands the dict, or the exception, to the caller.
Deliver ==
    /\ pc = "reply"
    /\ pc' = "idle"
    /\ call' = NoCall
    /\ resp' = NoResp
    /\ didRead' = FALSE
    /\ UNCHANGED <<source, exists, cache, threads, last>>

\* The file is taken away while the process runs.
SourceRemoved ==
    /\ pc # "reply"
    /\ exists
    /\ exists' = FALSE
    /\ UNCHANGED <<source, cache, pc, call, resp, didRead, threads, last>>

\* The file is put (back) in place while the process runs.
SourceRestored ==
    /\ pc # "reply"
    /\ ~exists
    /\ exists' = TRUE
    /\ UNCHANGED <<source, cache, pc, call, resp, didRead, threads, last>>

Next ==
    \/ Main
    \/ QuerySp500Portfolio
    \/ GetCompanyDetails
    \/ GetSectorAnalysis
    \/ GetExposureSummary
    \/ Deliver
    \/ SourceRemoved
    \/ SourceRestored

Spec == Init /\ [][Next]_vars

\* ------------------------------------------------- handlers run in parallel

\* The requests that can be in flight together.
Requests == 1..MaxRequests

\* The calls made in parallel: a query that sorts, and the summary.
ParallelCalls ==
    { [op |-> "query_sp500_portfolio",
       args |-> [ sector |-> <<>>, industry |-> <<>>, exposure_level |-> <<>>,
                  imports_filter |-> <<>>, min_revenue |-> 0, max_revenue |-> 0,
                  min_affected_cogs_pct |-> 0, company_name |-> <<>>, ticker |-> <<>>,
                  limit |-> 20, sort_by |-> "investment_usd", sort_desc |-> TRUE ]],
      [op |-> "get_exposure_summary"] }

\* What a handler makes of the list load_portfolio_data returned to it.
HandlerResult(c, data, uuid, ms) ==
    IF c.op = "query_sp500_portfolio" THEN QueryBody(data, c.args, uuid, ms)
    ELSE SummaryBody(data, uuid, ms)

\* A request not in flight.
NoThread ==
    [at |-> "idle", call |-> NoCall, portfolio_data |-> <<>>, data |-> <<>>,
     read |-> FALSE, resp |-> NoResp]

\* A bug the loader could have: the rows are appended to the shared cache as
\* they are read.
AfterRowShared(local, c, row) ==
    [portfolio_data |-> Append(local, ConvertRow(row)), cache |-> Append(c, ConvertRow(row))]

\* Lines 55-72: one more row of the reader is converted and appended to the
\* local list portfolio_data; the global is not touched.
AfterRow(local, c, row) ==
    [portfolio_data |-> Append(local, ConvertRow(row)), cache |-> c]

\* The server is up: main() has run, and found the file or not.  The file
\* stays as it is while the requests run.
ParallelInit ==
    /\ source \in Sources
    /\ exists \in BOOLEAN
    /\ cache \in { <<>>, ReadSource(source) }
    /\ pc = "idle"
    /\ call = NoCall
    /\ resp = NoResp
    /\ didRead = FALSE
    /\ threads = [r \in Requests |-> NoThread]
    /\ last = NoLast

\* A handler is entered and calls load_portfolio_data, which tests the cache
\* (line 45) and returns it if it holds records.
Enter(r) ==
    /\ threads[r].at = "idle"
    /\ \E c \in ParallelCalls :
          threads' = [threads EXCEPT ![r] =
              IF cache # <<>>
              THEN [NoThread EXCEPT !.at = "loaded", !.call = c, !.data = cache]
              ELSE [NoThread EXCEPT !.at = "exists", !.call = c]]
    /\ UNCHANGED <<source, exists, cache, pc, call, resp, didRead, last>>

\* Lines 48-53: the file is absent and [] is returned, or it is opened.
CheckExists(r) ==
    /\ threads[r].at = "exists"
    /\ threads' = [threads EXCEPT ![r] =
          IF ~exists THEN [@ EXCEPT !.at = "loaded", !.data = <<>>]
          ELSE [@ EXCEPT !.at = "reading", !.read = TRUE]]
    /\ UNCHANGED <<source, exists, cache, pc, call, resp, didRead, last>>

\* Lines 55-72: the next row of the file.
ReadRow(r) ==
    /\ threads[r].at = "reading"
    /\ Len(threads[r].portfolio_data) < Len(source)
    /\ LET k == Len(threads[r].portfolio_data) + 1
           after == AfterRow(threads[r].portfolio_data, cache, source[k])
       IN  /\ threads' = [threads EXCEPT ![r].portfolio_data = after.portfolio_data]
           /\ cache' = after.cache
    /\ UNCHANGED <<source, exists, pc, call, resp, didRead, last>>

\* Lines 74-76: the reader is exhausted; the global is bound to the local list,
\* which is returned.
AssignCache(r) ==
    /\ threads[r].at = "reading"
    /\ Len(threads[r].portfolio_data) = Len(source)
    /\ cache' = threads[r].portfolio_data
    /\ threads' = [threads EXCEPT ![r].at = "loaded", ![r].data = threads[r].portfolio_data]
    /\ UNCHANGED <<source, exists, pc, call, resp, didRead, last>>

\* The rest of the handler, which works on the list it was given.
Respond(r) ==
    /\ threads[r].at = "loaded"
    /\ \E uuid \in Uuid8, ms \in ElapsedMs :
          threads' = [threads EXCEPT ![r].at = "done",
                         ![r].resp = HandlerResult(threads[r].call, threads[r].data, uuid, ms)]
    /\ UNCHANGED <<source, exists, cache, pc, call, resp, didRead, last>>

\* The response is handed to the caller; the worker is free for a new request.
Finish(r) ==
    /\ threads[r].at = "done"
    /\ threads' = [threads EXCEPT ![r] = NoThread]
    /\ UNCHANGED <<source, exists, cache, pc, call, resp, didRead, last>>

ParallelNext ==
    \E r \in Requests :
        \/ Enter(r)
        \/ CheckExists(r)
        \/ ReadRow(r)
        \/ AssignCache(r)
        \/ Respond(r)
        \/ Finish(r)

ParallelSpec == ParallelInit /\ [][ParallelNext]_vars

\* ------------------------------------------------------ a query repeated

\* The queries that are repeated: with and without a filter, a limit that cuts
\* and one that does not, in dataset order and sorted.
RepeatArgs ==
    [ sector : { <<>>, <<"i","t">> },
      industry : { <<>> },
      exposure_level : { <<>> },
      imports_filter : { <<>> },
      min_revenue : { 0 },
      max_revenue : { 0 },
      min_affected_cogs_pct : { 0 },
      company_name : { <<>> },
      ticker : { <<>> },
      limit : { 1, 20 },
      sort_by : { "", "investment_usd" },
      sort_desc : { TRUE } ]

\* A call of query_sp500_portfolio (lines 96-185) with one of these arguments.
RepeatQuery ==
    /\ pc = "idle"
    /\ \E a \in RepeatArgs, uuid \in Uuid8, ms \in ElapsedMs :
          /\ call' = [op |-> "query_sp500_portfolio", args |-> a]
          /\ resp' = QueryBody(Loaded.data, a, uuid, ms)
    /\ cache' = Loaded.cache
    /\ didRead' = Loaded.read
    /\ pc' = "reply"
    /\ UNCHANGED <<source, exists, threads, last>>

\* The request boundary hands the outcome to the caller, who keeps that of a
\* query to compare the next query with, and notes that another operation ran.
RepeatDeliver ==
    /\ pc = "reply"
    /\ pc' = "idle"
    /\ call' = NoCall
    /\ resp' = NoResp
    /\ didRead' = FALSE
    /\ last' = IF call.op = "query_sp500_portfolio"
               THEN [call |-> call, resp |-> resp, loaded |-> cache # <<>>, between |-> FALSE]
               ELSE IF last = NoLast THEN last
               ELSE [last EXCEPT !.between = TRUE]
    /\ UNCHANGED <<source, exists, cache, threads>>

RepeatNext ==
    \/ Main
    \/ RepeatQuery
    \/ GetCompanyDetails
    \/ GetSectorAnalysis
    \/ GetExposureSummary
    \/ RepeatDeliver
    \/ SourceRemoved
    \/ SourceRestored

RepeatSpec == Init /\ [][RepeatNext]_vars

\* ------------------------------------------------ the top-exposed lists

\* Tickers that tell the rows of a long file apart.
TopTickers == << "A", "B", "C", "D", "E", "F", "G", "H", "I", "J", "K", "L", "M" >>

\* Row i of a long file: its ticker is its own, its sector alternates between
\* two, and its affected_cogs_pct is the cell pct.
TopRow(i, pct) ==
    Row(<< <<TopTickers[i]>>, <<"a","b">>,
           IF i % 2 = 1 THEN <<"I","T">> ELSE <<"E","n">>,
           <<"S","w">>, <<"H","i","g","h">>, <<"T","R","U","E">>,
           <<"1">>, <<"1">>, <<"1">>, <<"1">>, <<"1">>, pct, <<"1">> >>)

\* The long files: up to MaxTopRows rows, each with one of two percentages, so
\* that many records tie and a sector holds more than five.
TopSources ==
    UNION { { [i \in 1..n |-> TopRow(i, pcts[i])] : pcts \in [1..n -> { <<"1">>, <<"2">> }] }
            : n \in 0..MaxTopRows }

TopInit ==
    /\ source \in TopSources
    /\ exists = TRUE
    /\ cache = <<>>
    /\ pc = "boot"
    /\ call = NoCall
    /\ resp = NoResp
    /\ didRead = FALSE
    /\ threads = <<>>
    /\ last = NoLast

TopNext ==
    \/ Main
    \/ GetSectorAnalysis
    \/ GetExposureSummary
    \/ Deliver

TopSpec == TopInit /\ [][TopNext]_vars

\* ------------------------------------------------------------------ claims

\* The handler named op has finished and returned a dict.
ReturnedFrom(op) == pc = "reply" /\ call.op = op /\ resp.outcome = "returned"

\* The numeric fields the record declares (the loader converts gross_margin_pct
\* as well).
DeclaredNumeric ==
    { "investment_usd", "revenue_usd", "cogs_usd", "affected_cogs_pct",
      "fiscal_year", "confidence" }

\* C1: after a load of a file that exists, every declared numeric field of
\* every cached record is a float, and it is 0.0 where the cell of the file
\* does not parse as a number, the empty cell included.
C1_NumericFieldsAreNumbers ==
    \A i \in 1..Len(cache) : \A f \in DeclaredNumeric :
        /\ cache[i][f].k = "float"
        /\ ~FloatParses(source[i][f]) => cache[i][f] = PyFloat(0)

\* C2: a malformed field never reaches a caller: the load keeps every row of
\* the file, and no handler raises.
C2_MalformedFieldNeverSurfaces ==
    /\ cache # <<>> => Len(cache) = Len(source)
    /\ resp.outcome # "raised"

\* C3: once the cache holds a non-empty list, no step changes the cache and no
\* handler opens the source again, whatever the handler returned or raised.
C3_CacheWriteOnce ==
    [][cache # <<>> => (cache' = cache /\ (pc' = "reply" => ~didRead'))]_vars

\* C3 witness: a handler has raised on a loaded cache whose file is gone.
C3_Witness ==
    /\ cache # <<>>
    /\ ~exists
    /\ pc = "reply"
    /\ resp.outcome = "raised"

\* What the claims say of one record and the criteria of a query: the logical
\* AND of the criteria supplied.  A bound constrains only a field that holds a
\* number.
Satisfies(c, a) ==
    /\ a.sector # <<>> => Lower(c.sector) = Lower(a.sector)
    /\ a.industry # <<>> => Lower(c.industry) = Lower(a.industry)
    /\ a.exposure_level # <<>> => Lower(c.exposure_level) = Lower(a.exposure_level)
    /\ a.ticker # <<>> => Lower(c.ticker) = Lower(a.ticker)
    /\ a.company_name # <<>> => Contains(Lower(c.company_name), Lower(a.company_name))
    /\ Lower(a.imports_filter) = S_yes => c.imports_into_us
    /\ Lower(a.imports_filter) = S_no => ~c.imports_into_us
    /\ a.min_revenue > 0 => (c.revenue_usd.k = "float" /\ c.revenue_usd.n >= a.min_revenue)
    /\ a.max_revenue > 0 => (c.revenue_usd.k = "float" /\ c.revenue_usd.n <= a.max_revenue)
    /\ a.min_affected_cogs_pct > 0 =>
          (c.affected_cogs_pct.k = "float" /\ c.affected_cogs_pct.n >= a.min_affected_cogs_pct)

\* The cached records that satisfy the criteria, in dataset order.
Matching(a) == SelectSeq(cache, LAMBDA c : Satisfies(c, a))

\* No criterion of the query is supplied.
AllFiltersUnset(a) ==
    /\ a.sector = <<>> /\ a.industry = <<>> /\ a.exposure_level = <<>>
    /\ a.imports_filter = <<>> /\ a.company_name = <<>> /\ a.ticker = <<>>
    /\ a.min_revenue = 0 /\ a.max_revenue = 0 /\ a.min_affected_cogs_pct = 0

\* The number of records a list truncated to limit holds: at most limit, and
\* none for a limit of zero or less.
TruncatedLen(n, limit) == Min(Max(limit, 0), n)

\* C4: in a response of query_sp500_portfolio, total_matches counts exactly the
\* cached records that satisfy the AND of the supplied criteria, and without a
\* sort and with a limit that covers them, companies is those records in
\* dataset order.
C4_FilterIsConjunction ==
    ReturnedFrom("query_sp500_portfolio") =>
        LET a == call.args
            b == resp.body
        IN  /\ b.total_matches = Len(Matching(a))
            /\ (a.sort_by \notin SortFields /\ a.limit >= Len(Matching(a)))
                   => b.companies = Matching(a)

\* C4 witness: a query with several criteria, a bound that a record meets with
\* equality among them, that keeps one cached record and drops another.
C4_Witness ==
    /\ ReturnedFrom("query_sp500_portfolio")
    /\ call.args.sector # <<>>
    /\ call.args.min_revenue > 0
    /\ call.args.company_name # <<>>
    /\ resp.body.total_matches = 1
    /\ Len(cache) = 2
    /\ resp.body.companies[1].revenue_usd.n = call.args.min_revenue

\* C5: in a success response of query_sp500_portfolio, total_matches is the
\* number of records that pass the filters, whatever limit, sort_by and
\* sort_desc are; returned_count is the length of companies; and with all
\* filters unset total_matches is the size of the cache and companies is the
\* cached set truncated to limit.
C5_CountsAndTruncation ==
    ReturnedFrom("query_sp500_portfolio") =>
        LET a == call.args
            b == resp.body
        IN  /\ b.total_matches = Len(Matching(a))
            /\ b.returned_count = Len(b.companies)
            /\ AllFiltersUnset(a) =>
                  /\ b.total_matches = Len(cache)
                  /\ Len(b.companies) = TruncatedLen(Len(cache), a.limit)
                  /\ a.sort_by \notin SortFields
                        => b.companies = SubSeq(cache, 1, Len(b.companies))

\* C6: a limit of zero or less gives an empty companies list and a
\* returned_count of 0.
C6_NonPositiveLimitIsEmpty ==
    (ReturnedFrom("query_sp500_portfolio") /\ call.args.limit <= 0) =>
        /\ resp.body.companies = <<>>
        /\ resp.body.returned_count = 0

\* How often the record c occurs in seq.
Count(seq, c) == Cardinality({i \in 1..Len(seq) : seq[i] = c})

\* seq is ordered by field: non-increasing if desc, non-decreasing otherwise.
Monotone(seq, field, desc) ==
    \A i \in 1..(Len(seq) - 1) :
        IF desc THEN seq[i][field].n >= seq[i + 1][field].n
        ELSE seq[i][field].n <= seq[i + 1][field].n

\* C7: with a sort field, companies is ordered by it (non-increasing when
\* sort_desc, non-decreasing otherwise) and is the first limit records of the
\* sorted filtered set: it holds limit of the matching records (all, if fewer),
\* and no matching record left out sorts strictly before one it holds.  With
\* any other sort_by, companies is the first limit matching records in dataset
\* order.
C7_SortThenTruncate ==
    ReturnedFrom("query_sp500_portfolio") =>
        LET a == call.args
            got == resp.body.companies
            all == Matching(a)
        IN  /\ Len(got) = TruncatedLen(Len(all), a.limit)
            /\ IF a.sort_by \in SortFields
               THEN /\ Monotone(got, a.sort_by, a.sort_desc)
                    /\ \A i \in 1..Len(all) : Count(got, all[i]) <= Count(all, all[i])
                    /\ \A i \in 1..Len(got) : Count(all, got[i]) >= 1
                    /\ \A i \in 1..Len(all) : \A j \in 1..Len(got) :
                          Count(got, all[i]) < Count(all, all[i]) =>
                              IF a.sort_desc
                              THEN all[i][a.sort_by].n <= got[j][a.sort_by].n
                              ELSE all[i][a.sort_by].n >= got[j][a.sort_by].n
               ELSE got = SubSeq(all, 1, Len(got))

\* The least element of a non-empty set of indices.
Least(S) == CHOOSE i \in S : \A j \in S : i <= j

\* The record the lookup of C8 names: the first cached record whose ticker is
\* the given one (compared without regard to case, as the handler compares it),
\* and only if the ticker is empty or matches none, the first whose name
\* contains company_name; 0 if there is none.
LookedUp(ticker, company_name) ==
    LET byTicker == {i \in 1..Len(cache) : ticker # <<>> /\ Lower(cache[i].ticker) = Lower(ticker)}
        byName == {i \in 1..Len(cache) :
                      /\ company_name # <<>>
                      /\ Contains(Lower(cache[i].company_name), Lower(company_name))}
    IN  IF byTicker # {} THEN Least(byTicker)
        ELSE IF byName # {} THEN Least(byName)
        ELSE 0

\* C8: get_company_details never raises: with both arguments empty it returns
\* status error; otherwise it returns success with the record found by ticker
\* first and by name second, or not_found when neither lookup finds one.
C8_DetailsOutcome ==
    (pc = "reply" /\ call.op = "get_company_details") =>
        /\ resp.outcome = "returned"
        /\ IF call.ticker = <<>> /\ call.company_name = <<>>
           THEN resp.body.status = "error"
           ELSE LET i == LookedUp(call.ticker, call.company_name)
                IN  IF i = 0 THEN resp.body.status = "not_found"
                    ELSE /\ resp.body.status = "success"
                         /\ resp.body.company = cache[i]

\* The cached records of a sector, all of them for the empty sector.
SectorRecords(sector) ==
    SelectSeq(cache, LAMBDA c : sector = <<>> \/ Lower(c.sector) = Lower(sector))

\* C9: get_sector_analysis returns not_found exactly when a sector is given and
\* no cached record is in it; in every other case it returns success with the
\* aggregation of the records of the sector (of all records for no sector):
\* the sector aggregates together count each of these records once.
C9_SectorOutcome ==
    (pc = "reply" /\ call.op = "get_sector_analysis") =>
        /\ resp.outcome = "returned"
        /\ resp.body.status = "not_found"
              <=> (call.sector # <<>> /\ SectorRecords(call.sector) = <<>>)
        /\ resp.body.status # "not_found" =>
              /\ resp.body.status = "success"
              /\ resp.body.sector_count = Len(resp.body.sectors)
              /\ SumOf([k \in 1..Len(resp.body.sectors) |-> resp.body.sectors[k].company_count])
                    = Len(SectorRecords(call.sector))

\* The keys every response carries.
EnvelopeKeys == { "request_id", "status", "processing_time_ms" }

\* The keys that hold the payload of a success response, by operation.
PayloadKeys(op) ==
    CASE op = "query_sp500_portfolio" -> { "total_matches", "returned_count", "companies" }
      [] op = "get_company_details" -> { "company", "calculated_metrics" }
      [] op = "get_sector_analysis" -> { "sector_count", "sectors" }
      [] op = "get_exposure_summary" ->
            { "portfolio_overview", "exposure_level_breakdown", "top_exposed_companies",
              "sector_exposure_ranking" }

\* The keys under which a response explains a miss or an error.
TextKeys == { "message", "error" }

\* C10: every response returned carries a request identifier that starts with
\* rq_, a status among success, error and not_found, and a processing time; a
\* not_found or error response carries, besides these, one field of text that
\* explains it and nothing else; a success response carries the payload of its
\* operation.
C10_ResponseEnvelope ==
    (pc = "reply" /\ resp.outcome = "returned") =>
        LET b == resp.body
            keys == DOMAIN b
        IN  /\ EnvelopeKeys \subseteq keys
            /\ Len(b.request_id) > Len(S_rq)
            /\ SubSeq(b.request_id, 1, Len(S_rq)) = S_rq
            /\ b.status \in { "success", "error", "not_found" }
            /\ b.status \in { "error", "not_found" } =>
                  /\ Cardinality(keys \cap TextKeys) = 1
                  /\ keys \subseteq EnvelopeKeys \cup TextKeys
            /\ b.status = "success" => PayloadKeys(call.op) \subseteq keys

\* C10 witness: a validation error has been returned.
C10_Witness ==
    /\ pc = "reply"
    /\ resp.outcome = "returned"
    /\ resp.body.status = "error"

\* A handler starts on an empty cache while the file is absent.
StartsAbsent == pc = "idle" /\ ~exists /\ cache = <<>>

\* C11: with the source absent and nothing cached, the load gives the empty
\* list, does not open the file and leaves the cache empty, at start-up and in
\* every handler; no handler raises; query_sp500_portfolio returns success
\* with total_matches 0, get_exposure_summary success with total_companies 0,
\* get_sector_analysis without a sector success with sector_count 0; and a
\* later call that finds the file reads it.
C11_AbsentSourceIsEmpty ==
    [][ /\ (pc = "boot" /\ ~exists) => (cache' = <<>> /\ ~didRead')
        /\ (StartsAbsent /\ pc' = "reply") =>
              /\ cache' = <<>>
              /\ ~didRead'
              /\ resp'.outcome = "returned"
              /\ call'.op = "query_sp500_portfolio" =>
                    /\ resp'.body.status = "success"
                    /\ resp'.body.total_matches = 0
                    /\ resp'.body.companies = <<>>
              /\ call'.op = "get_exposure_summary" =>
                    /\ resp'.body.status = "success"
                    /\ resp'.body.portfolio_overview.total_companies = 0
              /\ (call'.op = "get_sector_analysis" /\ call'.sector = <<>>) =>
                    /\ resp'.body.status = "success"
                    /\ resp'.body.sector_count = 0
        /\ (pc = "idle" /\ exists /\ cache = <<>> /\ pc' = "reply"
               /\ call'.op \in {"query_sp500_portfolio", "get_exposure_summary"}) =>
              (didRead' /\ cache' = ReadSource(source))
      ]_vars

\* C11 witness: the summary has answered while the two-row file is absent and
\* nothing is cached.
C11_Witness ==
    /\ pc = "reply"
    /\ ~exists
    /\ cache = <<>>
    /\ Len(source) = 2
    /\ call.op = "get_exposure_summary"
    /\ resp.outcome = "returned"
    /\ resp.body.portfolio_overview.total_companies = 0

\* What a call run alone in the current state of the cache and the file would
\* be given by load_portfolio_data.
AloneData == LoadPortfolioData(cache, exists, source).data

\* C12: under every interleaving of the steps of parallel requests, the cache
\* is either empty or the whole list of the file's records, once; a request is
\* given the list it would be given alone, never a part of it; and its outcome
\* is the outcome of the same call run alone on that list.
C12_ParallelLoadsAgree ==
    /\ cache = <<>> \/ cache = ReadSource(source)
    /\ \A r \in DOMAIN threads :
          /\ threads[r].at \in {"loaded", "done"} => threads[r].data = AloneData
          /\ threads[r].at = "done" =>
                \E uuid \in Uuid8, ms \in ElapsedMs :
                    threads[r].resp = HandlerResult(threads[r].call, AloneData, uuid, ms)

\* C12 witness: two requests that both found the cache empty and both read the
\* two-row file have answered, the second before the first was handed over.
C12_Witness ==
    /\ Len(source) = 2
    /\ cache = ReadSource(source)
    /\ \E r1, r2 \in DOMAIN threads :
          /\ r1 # r2
          /\ threads[r1].at = "done" /\ threads[r1].read
          /\ threads[r2].at = "done" /\ threads[r2].read

\* A query has returned whose arguments are those of the query before it, which
\* returned too.
Repeated ==
    /\ ReturnedFrom("query_sp500_portfolio")
    /\ last.call = call
    /\ last.resp.outcome = "returned"

\* The response repeats that of the query before it.
SameAnswer ==
    /\ resp.body.companies = last.resp.body.companies
    /\ resp.body.total_matches = last.resp.body.total_matches

\* C13 as stated: two consecutive calls of query_sp500_portfolio with the same
\* arguments return the same companies, in the same order, and the same
\* total_matches, whatever ran between them.
C13_RepeatedQueryIdentical == Repeated => SameAnswer

\* C13, amended: they do whenever the first call left records in the cache, or
\* the second still finds none; whatever other operations ran between them.
C13_RepeatedQueryIdenticalOnceLoaded ==
    (Repeated /\ (last.loaded \/ cache = <<>>)) => SameAnswer

\* C13 witness: a sorted query has returned two records of a loaded cache for
\* the second time, with another operation between the two calls.
C13_Witness ==
    /\ Repeated
    /\ last.loaded
    /\ last.between
    /\ call.args.sort_by = "investment_usd"
    /\ Len(resp.body.companies) = 2

\* The ratio r is what the claims say of a ratio over the denominator den:
\* 0 when den is 0, and the quotient num/den otherwise.
GuardedQuotient(r, num, den) ==
    IF den = 0 THEN r.num = 0 ELSE r.num * den = num * r.den

\* The cached records whose sector is spelt sec, among those of the sector
\* asked for (all of them for no sector).
Spelt(sec, sector) == SelectSeq(SectorRecords(sector), LAMBDA c : c.sector = sec)

\* The COGS of the records of seq, and what of them is affected, added up.
TotalCogs(seq) == SumOf([i \in 1..Len(seq) |-> seq[i].cogs_usd.n])
TotalAffected(seq) ==
    SumOf([i \in 1..Len(seq) |-> seq[i].cogs_usd.n * seq[i].affected_cogs_pct.n])

\* The COGS of every record of seq are the number 0.
AllCogsZero(seq) == \A i \in 1..Len(seq) : seq[i].cogs_usd = PyFloat(0)

\* C14: every ratio is 0 when the COGS it divides by are 0 and the quotient
\* otherwise (revenue_to_cogs_ratio of get_company_details; average_exposure_pct
\* of each sector of get_sector_analysis; overall_exposure_pct and each
\* sector's exposure_pct of get_exposure_summary), and no operation fails on
\* records whose COGS are all 0, the empty set of records included.
C14_RatiosGuarded ==
    /\ (ReturnedFrom("get_company_details") /\ resp.body.status = "success") =>
          GuardedQuotient(resp.body.calculated_metrics.revenue_to_cogs_ratio,
                          resp.body.company.revenue_usd.n, resp.body.company.cogs_usd.n)
    /\ (ReturnedFrom("get_sector_analysis") /\ resp.body.status = "success") =>
          \A k \in 1..Len(resp.body.sectors) :
              LET recs == Spelt(resp.body.sectors[k].sector, call.sector)
              IN  GuardedQuotient(resp.body.sectors[k].average_exposure_pct,
                                  TotalAffected(recs), TotalCogs(recs))
    /\ ReturnedFrom("get_exposure_summary") =>
          /\ GuardedQuotient(resp.body.portfolio_overview.overall_exposure_pct,
                             TotalAffected(cache), TotalCogs(cache))
          /\ \A k \in 1..Len(resp.body.sector_exposure_ranking) :
                LET recs == Spelt(resp.body.sector_exposure_ranking[k].sector, <<>>)
                IN  GuardedQuotient(resp.body.sector_exposure_ranking[k].exposure_pct,
                                    TotalAffected(recs), TotalCogs(recs))
    /\ (pc = "reply" /\ call.op \in {"get_sector_analysis", "get_exposure_summary"}
           /\ AllCogsZero(cache)) => resp.outcome = "returned"
    /\ (pc = "reply" /\ call.op = "get_company_details"
           /\ LookedUp(call.ticker, call.company_name) # 0
           /\ AllCogsZero(<<cache[LookedUp(call.ticker, call.company_name)]>>))
          => resp.outcome = "returned"

\* The place of record i of seq in the stable descending order by
\* affected_cogs_pct: after the records with a greater percentage and after
\* the earlier records with the same.
StableRank(seq, i) ==
    1 + Cardinality({ j \in 1..Len(seq) :
                        \/ seq[j].affected_cogs_pct.n > seq[i].affected_cogs_pct.n
                        \/ /\ seq[j].affected_cogs_pct.n = seq[i].affected_cogs_pct.n
                           /\ j < i })

\* C15: each sector's top_exposed_companies in get_sector_analysis holds the
\* first 5 (all, if fewer) of the sector's records in the stable descending
\* order by affected_cogs_pct, and top_exposed_companies in
\* get_exposure_summary the first 10 of all records in that order: records with
\* equal percentages keep their dataset order.
C15_TopExposedStablePrefix ==
    /\ (ReturnedFrom("get_sector_analysis") /\ resp.body.status = "success") =>
          \A k \in 1..Len(resp.body.sectors) :
              LET recs == Spelt(resp.body.sectors[k].sector, call.sector)
                  top == resp.body.sectors[k].top_exposed_companies
              IN  /\ Len(top) = Min(5, Len(recs))
                  /\ \A i \in 1..Len(recs) :
                        StableRank(recs, i) <= 5 => top[StableRank(recs, i)] = recs[i]
    /\ ReturnedFrom("get_exposure_summary") =>
          LET top == resp.body.top_exposed_companies
          IN  /\ Len(top) = Min(10, Len(cache))
              /\ \A i \in 1..Len(cache) :
                    StableRank(cache, i) <= 10 =>
                        /\ top[StableRank(cache, i)].ticker = cache[i].ticker
                        /\ top[StableRank(cache, i)].company_name = cache[i].company_name
                        /\ top[StableRank(cache, i)].sector = cache[i].sector
                        /\ top[StableRank(cache, i)].affected_cogs_pct
                              = cache[i].affected_cogs_pct

\* C15 witness: the summary of eleven records lists ten; the record left out
\* ties with the last one listed, which precedes it in the dataset, and a
\* later record with a greater percentage is listed before both.
C15_Witness ==
    /\ ReturnedFrom("get_exposure_summary")
    /\ Len(cache) = 11
    /\ Len(resp.body.top_exposed_companies) = 10
    /\ resp.body.top_exposed_companies[10].ticker = cache[9].ticker
    /\ cache[9].affected_cogs_pct = cache[11].affected_cogs_pct
    /\ resp.body.top_exposed_companies[1].ticker = cache[10].ticker

\* C16: a success response of get_sector_analysis for a sector that was named
\* holds exactly one sector aggregate, and its company_count is the number of
\* cached records the sector filter matches.
C16_OneAggregatePerNamedSector ==
    (ReturnedFrom("get_sector_analysis") /\ call.sector # <<>>
        /\ resp.body.status = "success") =>
        /\ resp.body.sector_count = 1
        /\ Len(resp.body.sectors) = 1
        /\ resp.body.sectors[1].company_count = Len(SectorRecords(call.sector))

====
